---- MODULE Spec2Model ----
(***************************************************************************)
(* SR-VNC: a capture server that streams length-prefixed frames over UDP   *)
(* to one registered endpoint and takes register/command messages on       *)
(* WebSocket control connections (src/src/sr_vnc/server.py), and the       *)
(* viewing client (src/src/sr_vnc/client.py).                              *)
(*                                                                         *)
(* Both programs run on an asyncio event loop: code between two awaits is  *)
(* one atomic step, so every action below is one such stretch of code.     *)
(***************************************************************************)
EXTENDS Integers, Sequences, FiniteSets, TLC

(* ------------------------------ bounds -------------------------------- *)
\* messages the raw control peers send in total
MaxMsgs == 2
\* iterations of the server's send loop
MaxTicks == 2
\* commands the client's user types
MaxCmds == 2
\* datagrams the environment puts on the client's UDP socket
MaxDgrams == 1
\* length of the short payloads put through the framing alone
MaxLen == 3
\* bytes missing at the end of a buffer handed to FramePacket.parse
MaxCut == 2
\* iterations of the server's send loop when the client runs beside it
MaxClientTicks == 1

(* --------------------------- JSON values ------------------------------ *)
\* A JSON value as Python sees it after json.loads; "absent" is a missing key.
Absent == [t |-> "absent", s |-> "", n |-> 0]
Null == [t |-> "null", s |-> "", n |-> 0]
JStr(x) == [t |-> "str", s |-> x, n |-> 0]
JInt(x) == [t |-> "int", s |-> "", n |-> x]

\* Python truthiness of a value obtained with dict.get
Truthy(v) ==
    \/ v.t = "str" /\ v.s # ""
    \/ v.t = "int" /\ v.n # 0

\* the decimal strings used as ports in the model, with their int() value
DecimalStrings == [x \in {"10001"} |-> 10001]

Ok(v) == [ok |-> TRUE, val |-> v]
Raise(v) == [ok |-> FALSE, val |-> v]

\* int(x): an int is kept, a decimal string is parsed, None (TypeError) and any
\* other string (ValueError) raise.  A missing key raised KeyError before int().
python_int(v) ==
    CASE v.t = "int" -> Ok(v.n)
      [] v.t = "str" /\ v.s \in DOMAIN DecimalStrings -> Ok(DecimalStrings[v.s])
      [] OTHER -> Raise(0)

(* ------------------------- control messages --------------------------- *)
EmptyPayload == [host |-> Absent, port |-> Absent, raw |-> Absent]

\* A text message on the wire: json is whether json.loads accepts it.
Wire(js, ty, hasp, h, p, r) ==
    [json |-> js, type |-> ty, hasPayload |-> hasp,
     payload |-> [host |-> h, port |-> p, raw |-> r]]

RegisterMsg(h, p) == Wire(TRUE, JStr("register"), TRUE, h, p, Absent)
CommandMsg(r) == Wire(TRUE, JStr("command"), TRUE, Absent, Absent, JStr(r))

NotJson == Wire(FALSE, Absent, FALSE, Absent, Absent, Absent)
NoType == Wire(TRUE, Absent, TRUE, Absent, Absent, JStr("click:100,200"))
UnknownType == Wire(TRUE, JStr("resize"), TRUE, Absent, Absent, JStr("800x600"))
BarePing == Wire(TRUE, JStr("command"), FALSE, Absent, Absent, Absent)

\* what a raw control peer may send
RawMessages ==
    { NotJson, NoType, UnknownType, BarePing,
      CommandMsg("click:100,200"),
      RegisterMsg(Null, JInt(10000)),
      RegisterMsg(JStr("203.0.113.9"), JStr("10001")),
      RegisterMsg(Absent, JInt(10001)),
      RegisterMsg(JStr(""), JInt(10001)),
      RegisterMsg(Absent, Absent),
      RegisterMsg(JStr("203.0.113.9"), JStr("abc")) }

ControlMessage(ty, pl) == [type |-> ty, payload |-> pl]

from_json(message) ==
    IF ~message.json THEN Raise(ControlMessage(Absent, EmptyPayload))
    ELSE IF message.type.t = "absent" THEN Raise(ControlMessage(Absent, EmptyPayload))
    ELSE Ok(ControlMessage(message.type,
                           IF message.hasPayload THEN message.payload ELSE EmptyPayload))

is_register(control) == control.type.t = "str" /\ control.type.s = "register"

(* ------------------------------ server -------------------------------- *)
Conns == {1, 2}
ClientConn == 1

\* websocket.remote_address[0] of each control connection
remote_host(c) == IF c = 1 THEN "127.0.0.1" ELSE "198.51.100.2"

None == <<>>

\* SRVNCServer.__init__ defaults
video_host == "0.0.0.0"
video_port == 9999

\* encoded frames capture_frame can return
Frames == { <<255, 216>>, <<255, 216, 217>> }

VARIABLES
    srv_pc,         \* where SRVNCServer.start is
    transport,      \* self._transport: None or the bound local address
    client_addr,    \* self._client_addr: None or <<host, port>>
    conn,           \* per control connection: "idle", "open", "closed", "failed"
    inbox,          \* per control connection: messages sent and not yet handled
    applied,        \* the calls of apply_control, in order: <<connection, control>>
    sent,           \* the calls of transport.sendto, in order
    captures,       \* the calls of capture_frame
    captured,       \* history: the frames capture_frame returned, in order
    ticks,          \* the calls of send_frame
    last_register,  \* history: the register message handled last, <<connection, message>>
    nmsgs           \* history: messages sent by raw peers

srv_vars == <<srv_pc, transport, client_addr, conn, inbox, applied, sent,
              captures, captured, ticks, last_register, nmsgs>>

VARIABLES
    cl_pc,          \* where SRVNCClient.start / register_udp / forward_controls is
    cl_cmd,         \* the command input() returned, not yet sent
    cl_sent,        \* the messages the client passed to websocket.send, in order
    issued,         \* the commands the user typed, in order
    udp_in,         \* datagrams queued on the client's UDP socket
    rx_pc,          \* the receive_frames task: "none", "recv", "failed", "cancelled"
    displayed,      \* the frames passed to cv2.imshow, in order
    delivered,      \* the server's datagrams (indices of sent) the network delivered
    ndgrams         \* history: datagrams put on the socket by the environment

cl_vars == <<cl_pc, cl_cmd, cl_sent, issued, udp_in, rx_pc, displayed, delivered,
             ndgrams>>

VARIABLES
    fr              \* one payload on its way through framing and parsing

vars == <<srv_vars, cl_vars, fr>>

(* ------------------------- server: operations -------------------------- *)
ServerRunning == srv_pc \in {"serving", "tick", "sleep"}

\* variant: the peer address is the default of get, used only for a missing key
register_host_get_default(control, c) ==
    IF control.payload.host.t = "absent" THEN remote_host(c) ELSE control.payload.host.s

\* handle_control, register branch: the host the endpoint gets
register_host(control, c) ==
    IF Truthy(control.payload.host) THEN control.payload.host.s ELSE remote_host(c)

\* handle_control, register branch: port = int(control.payload["port"])
register_port(control) ==
    IF control.payload.port.t = "absent" THEN Raise(0)
    ELSE python_int(control.payload.port)

\* variant: the host is stored before the port is converted
addr_after_raise_host_stored(old, host) == IF old = None THEN old ELSE <<host, old[2]>>

\* handle_control, register branch: int(...) raises before the assignment is reached
addr_after_raise(old, host) == old

\* variant: the first registration is kept (the overwrite is guarded)
register_addr_keep_first(old, host, port) == IF old = None THEN <<host, port>> ELSE old

\* variant: host and port are stored as two fields and only the host is rewritten
register_addr_torn(old, host, port) ==
    IF old = None THEN <<host, port>> ELSE <<host, old[2]>>

\* handle_control, register branch: self._client_addr = (host, port)
register_addr(old, host, port) == <<host, port>>

\* variant: the newest command is put in front of the ones already applied
apply_control_newest_first(log, c, control) == <<<<c, control>>>> \o log

\* variant: the command is applied twice
apply_control_twice(log, c, control) == Append(Append(log, <<c, control>>), <<c, control>>)

\* apply_control is called with the ControlMessage of the message
apply_control(log, c, control) == Append(log, <<c, control>>)

\* variant: the handler clears the endpoint when its connection closes
close_addr_clears(addr) == None

\* the handler returns when the connection closes; it has no cleanup
close_addr(addr) == addr

\* variant: send_frame has no early return
send_skips_never(addr, tr) == FALSE

\* variant: the early return tests the transport only
send_skips_transport_only(addr, tr) == tr = None

\* send_frame: the early return
send_skips(addr, tr) == addr = None \/ tr = None

\* variant: the length is written in little-endian order ("<I")
pack_le32(n) ==
    << n % 256, (n \div 256) % 256, (n \div 65536) % 256, (n \div 16777216) % 256 >>

\* struct.pack("!I", n)
pack_be32(n) ==
    << (n \div 16777216) % 256, (n \div 65536) % 256, (n \div 256) % 256, n % 256 >>

\* variant: the declared length counts the header too
datagram_length_with_header(frame) == pack_be32(4 + Len(frame)) \o frame

\* send_frame: header + frame
datagram(frame) == pack_be32(Len(frame)) \o frame

\* send_frame: the destination passed to sendto
send_dest(addr) == addr

\* variant: datagrams wait on a stack and the newest leaves first
sendto_newest_first(log, data, addr) == <<[dest |-> addr, data |-> data]>> \o log

\* send_frame: self._transport.sendto(data, addr), one call per tick
sendto(log, data, addr) == Append(log, [dest |-> addr, data |-> data])

(* --------------------------- server: actions --------------------------- *)
\* start: await websockets.serve(...)
Serve ==
    /\ srv_pc = "start"
    /\ srv_pc' = "serving"
    /\ UNCHANGED <<transport, client_addr, conn, inbox, applied, sent, captures, captured,
                   ticks, last_register, nmsgs>>
    /\ UNCHANGED cl_vars
    /\ UNCHANGED fr

\* start: create_datagram_endpoint, self._transport = transport
Bind ==
    /\ srv_pc = "serving"
    /\ srv_pc' = "tick"
    /\ transport' = <<video_host, video_port>>
    /\ UNCHANGED <<client_addr, conn, inbox, applied, sent, captures, captured, ticks,
                   last_register, nmsgs>>
    /\ UNCHANGED cl_vars
    /\ UNCHANGED fr

\* a raw peer opens a control connection; websockets starts handle_control for it
Connect(c) ==
    /\ ServerRunning
    /\ conn[c] = "idle"
    /\ conn' = [conn EXCEPT ![c] = "open"]
    /\ UNCHANGED <<srv_pc, transport, client_addr, inbox, applied, sent, captures, captured,
                   ticks, last_register, nmsgs>>
    /\ UNCHANGED cl_vars
    /\ UNCHANGED fr

\* a raw peer sends one text message
PeerSend(c) ==
    /\ conn[c] = "open"
    /\ nmsgs < MaxMsgs
    /\ \E m \in RawMessages : inbox' = [inbox EXCEPT ![c] = Append(@, m)]
    /\ nmsgs' = nmsgs + 1
    /\ UNCHANGED <<srv_pc, transport, client_addr, conn, applied, sent, captures, captured,
                   ticks, last_register>>
    /\ UNCHANGED cl_vars
    /\ UNCHANGED fr

\* a raw peer closes its connection: "async for" ends after the queued messages
PeerClose(c) ==
    /\ ServerRunning
    /\ conn[c] = "open"
    /\ inbox[c] = <<>>
    /\ conn' = [conn EXCEPT ![c] = "closed"]
    /\ client_addr' = close_addr(client_addr)
    /\ UNCHANGED <<srv_pc, transport, inbox, applied, sent, captures, captured, ticks,
                   last_register, nmsgs>>
    /\ UNCHANGED cl_vars
    /\ UNCHANGED fr

\* handle_control: one iteration of "async for message in websocket".
\* An exception leaves the handler; websockets then closes the connection.
HandleMessage(c) ==
    /\ ServerRunning
    /\ conn[c] = "open"
    /\ inbox[c] # <<>>
    /\ LET message == Head(inbox[c])
           parsed == from_json(message)
           control == parsed.val
           port == register_port(control)
       IN  /\ inbox' = [inbox EXCEPT ![c] = Tail(@)]
           /\ IF ~parsed.ok
              THEN /\ conn' = [conn EXCEPT ![c] = "failed"]
                   /\ UNCHANGED <<client_addr, applied, last_register>>
              ELSE IF is_register(control)
              THEN IF ~port.ok
                   THEN /\ conn' = [conn EXCEPT ![c] = "failed"]
                        /\ client_addr' =
                             addr_after_raise(client_addr, register_host(control, c))
                        /\ UNCHANGED <<applied, last_register>>
                   ELSE /\ client_addr' =
                             register_addr(client_addr, register_host(control, c), port.val)
                        /\ last_register' = <<c, message>>
                        /\ UNCHANGED <<conn, applied>>
              ELSE /\ applied' = apply_control(applied, c, control)
                   /\ UNCHANGED <<conn, client_addr, last_register>>
    /\ UNCHANGED <<srv_pc, transport, sent, captures, captured, ticks, nmsgs>>
    /\ UNCHANGED cl_vars
    /\ UNCHANGED fr

\* send_frame returns early: nothing captured, nothing sent
TickSkip(limit) ==
    /\ srv_pc = "tick"
    /\ ticks < limit
    /\ send_skips(client_addr, transport)
    /\ srv_pc' = "sleep"
    /\ ticks' = ticks + 1
    /\ UNCHANGED <<transport, client_addr, conn, inbox, applied, sent, captures, captured,
                   last_register, nmsgs>>
    /\ UNCHANGED cl_vars
    /\ UNCHANGED fr

\* send_frame: capture_frame returns a frame, one sendto
TickSend(limit) ==
    /\ srv_pc = "tick"
    /\ ticks < limit
    /\ ~send_skips(client_addr, transport)
    /\ \E frame \in Frames :
          /\ captured' = Append(captured, frame)
          /\ sent' = sendto(sent, datagram(frame), send_dest(client_addr))
    /\ captures' = captures + 1
    /\ srv_pc' = "sleep"
    /\ ticks' = ticks + 1
    /\ UNCHANGED <<transport, client_addr, conn, inbox, applied, last_register, nmsgs>>
    /\ UNCHANGED cl_vars
    /\ UNCHANGED fr

\* send_frame: capture_frame raises (grab fails, or imencode reports no success);
\* the exception leaves send_frame, the while loop and start
TickCaptureFails(limit) ==
    /\ srv_pc = "tick"
    /\ ticks < limit
    /\ ~send_skips(client_addr, transport)
    /\ captures' = captures + 1
    /\ srv_pc' = "failed"
    /\ ticks' = ticks + 1
    /\ UNCHANGED <<transport, client_addr, conn, inbox, applied, sent, captured,
                   last_register, nmsgs>>
    /\ UNCHANGED cl_vars
    /\ UNCHANGED fr

\* start: await asyncio.sleep(self.frame_interval)
Sleep ==
    /\ srv_pc = "sleep"
    /\ srv_pc' = "tick"
    /\ UNCHANGED <<transport, client_addr, conn, inbox, applied, sent, captures, captured,
                   ticks, last_register, nmsgs>>
    /\ UNCHANGED cl_vars
    /\ UNCHANGED fr

(* ------------------------- client: operations -------------------------- *)
\* SRVNCClient.__init__ default
listen_port == 10000

\* what the user types at the "control> " prompt
Commands == {"click:100,200", "key:a"}

\* variant: the client names its own bind address as the host
register_payload_bind_host(port) == RegisterMsg(JStr("0.0.0.0"), JInt(port))

\* register_udp: the first message
register_payload(port) == RegisterMsg(Null, JInt(port))

\* forward_controls: the message built from one line of input
command_payload(command) == CommandMsg(command)

\* struct.unpack("!I", b)[0] of four bytes
unpack_be32(b) == b[1] * 16777216 + b[2] * 65536 + b[3] * 256 + b[4]

\* Python's raw[a:b] with 0 <= a <= b, in 1-based sequence terms
Slice(raw, a, b) ==
    SubSeq(raw, a + 1, IF b < Len(raw) THEN b ELSE Len(raw))

\* FramePacket.parse: struct.unpack raises struct.error unless raw[:4] has 4 bytes
parse(raw) ==
    IF Len(Slice(raw, 0, 4)) # 4
    THEN Raise([size |-> 0, payload |-> <<>>])
    ELSE LET size == unpack_be32(Slice(raw, 0, 4))
         IN  Ok([size |-> size, payload |-> Slice(raw, 4, 4 + size)])

\* display_frame: cv2.imdecode gives an image for the byte strings the encoder
\* produces and None for the others; for an empty buffer it gives None or raises
\* cv2.error, depending on the OpenCV build
imdecode(frame) ==
    IF frame \in Frames THEN {"image"}
    ELSE IF frame = <<>> THEN {"none", "raise"}
    ELSE {"none"}

\* where the server's datagrams reach this client
ClientEndpoint == <<remote_host(ClientConn), listen_port>>

\* datagrams other than the server's that can arrive on the client's socket
StrayDatagrams ==
    { <<0, 0>>,                     \* shorter than the header
      <<0, 0, 0, 3, 255, 216>>,     \* declares 3 bytes, carries 2
      <<0, 0, 0, 2, 1, 2>>,         \* payload is no image
      <<0, 0, 0, 0>>,               \* empty payload
      <<0, 0, 0, 2, 255, 216>> }    \* well formed

(* --------------------------- client: actions --------------------------- *)
\* start: create_task(receive_frames), then register_udp begins
ClientStart ==
    /\ cl_pc = "start"
    /\ cl_pc' = "connect"
    /\ rx_pc' = "recv"
    /\ UNCHANGED <<cl_cmd, cl_sent, issued, udp_in, displayed, delivered, ndgrams>>
    /\ UNCHANGED srv_vars
    /\ UNCHANGED fr

\* register_udp: websockets.connect succeeds; the server starts handle_control
ClientConnect ==
    /\ cl_pc = "connect"
    /\ ServerRunning
    /\ conn[ClientConn] = "idle"
    /\ conn' = [conn EXCEPT ![ClientConn] = "open"]
    /\ cl_pc' = "register"
    /\ UNCHANGED <<cl_cmd, cl_sent, issued, udp_in, rx_pc, displayed, delivered, ndgrams>>
    /\ UNCHANGED <<srv_pc, transport, client_addr, inbox, applied, sent, captures, captured,
                   ticks, last_register, nmsgs>>
    /\ UNCHANGED fr

\* register_udp: websockets.connect raises (no server listening); start and main
\* end with it and asyncio.run cancels the receive task
ClientConnectFails ==
    /\ cl_pc = "connect"
    /\ ~ServerRunning
    /\ cl_pc' = "failed"
    /\ rx_pc' = "cancelled"
    /\ UNCHANGED <<cl_cmd, cl_sent, issued, udp_in, displayed, delivered, ndgrams>>
    /\ UNCHANGED srv_vars
    /\ UNCHANGED fr

\* register_udp: await websocket.send(json.dumps(payload))
ClientRegister ==
    /\ cl_pc = "register"
    /\ LET msg == register_payload(listen_port)
       IN  /\ inbox' = [inbox EXCEPT ![ClientConn] = Append(@, msg)]
           /\ cl_sent' = Append(cl_sent, msg)
    /\ cl_pc' = "input"
    /\ UNCHANGED <<cl_cmd, issued, udp_in, rx_pc, displayed, delivered, ndgrams>>
    /\ UNCHANGED <<srv_pc, transport, client_addr, conn, applied, sent, captures, captured,
                   ticks, last_register, nmsgs>>
    /\ UNCHANGED fr

\* forward_controls: input() in the executor returns one line
ClientInput ==
    /\ cl_pc = "input"
    /\ Len(issued) < MaxCmds
    /\ \E command \in Commands :
          /\ cl_cmd' = command
          /\ issued' = Append(issued, command)
    /\ cl_pc' = "send"
    /\ UNCHANGED <<cl_sent, udp_in, rx_pc, displayed, delivered, ndgrams>>
    /\ UNCHANGED srv_vars
    /\ UNCHANGED fr

\* forward_controls: await websocket.send(msg)
ClientSend ==
    /\ cl_pc = "send"
    /\ ServerRunning
    /\ conn[ClientConn] = "open"
    /\ LET msg == command_payload(cl_cmd)
       IN  /\ inbox' = [inbox EXCEPT ![ClientConn] = Append(@, msg)]
           /\ cl_sent' = Append(cl_sent, msg)
    /\ cl_pc' = "input"
    /\ UNCHANGED <<cl_cmd, issued, udp_in, rx_pc, displayed, delivered, ndgrams>>
    /\ UNCHANGED <<srv_pc, transport, client_addr, conn, applied, sent, captures, captured,
                   ticks, last_register, nmsgs>>
    /\ UNCHANGED fr

\* forward_controls: websocket.send raises ConnectionClosed (the server is gone)
ClientSendFails ==
    /\ cl_pc = "send"
    /\ ~(ServerRunning /\ conn[ClientConn] = "open")
    /\ cl_pc' = "failed"
    /\ rx_pc' = "cancelled"
    /\ UNCHANGED <<cl_cmd, cl_sent, issued, udp_in, displayed, delivered, ndgrams>>
    /\ UNCHANGED srv_vars
    /\ UNCHANGED fr

\* the network hands one of the server's datagrams to the client's socket
\* (any order, at most once; a datagram never delivered is lost)
NetDeliver ==
    /\ \E i \in (1..Len(sent)) \ delivered :
          /\ sent[i].dest = ClientEndpoint
          /\ udp_in' = Append(udp_in, sent[i].data)
          /\ delivered' = delivered \cup {i}
    /\ UNCHANGED <<cl_pc, cl_cmd, cl_sent, issued, rx_pc, displayed, ndgrams>>
    /\ UNCHANGED srv_vars
    /\ UNCHANGED fr

\* some other sender's datagram arrives on the client's socket
StrayDatagram ==
    /\ ndgrams < MaxDgrams
    /\ \E d \in StrayDatagrams : udp_in' = Append(udp_in, d)
    /\ ndgrams' = ndgrams + 1
    /\ UNCHANGED <<cl_pc, cl_cmd, cl_sent, issued, rx_pc, displayed, delivered>>
    /\ UNCHANGED srv_vars
    /\ UNCHANGED fr

\* receive_frames: one iteration whose parse and decode do not raise
ReceiveFrame ==
    /\ rx_pc = "recv"
    /\ udp_in # <<>>
    /\ LET packet == parse(Head(udp_in))
       IN  /\ packet.ok
           /\ \E outcome \in imdecode(packet.val.payload) \ {"raise"} :
                 displayed' = IF outcome = "image"
                              THEN Append(displayed, packet.val.payload)
                              ELSE displayed
    /\ udp_in' = Tail(udp_in)
    /\ UNCHANGED <<cl_pc, cl_cmd, cl_sent, issued, rx_pc, delivered, ndgrams>>
    /\ UNCHANGED srv_vars
    /\ UNCHANGED fr

\* receive_frames: one iteration in which parse or imdecode raises; the exception
\* ends the task and nothing awaits it
ReceiveFails ==
    /\ rx_pc = "recv"
    /\ udp_in # <<>>
    /\ LET packet == parse(Head(udp_in))
       IN  ~packet.ok \/ "raise" \in imdecode(packet.val.payload)
    /\ udp_in' = Tail(udp_in)
    /\ rx_pc' = "failed"
    /\ UNCHANGED <<cl_pc, cl_cmd, cl_sent, issued, displayed, delivered, ndgrams>>
    /\ UNCHANGED srv_vars
    /\ UNCHANGED fr

(* ---------------------- framing, taken on its own ---------------------- *)
\* the configured ceiling of a frame's payload (max_payload of spec.md, sections
\* 3 and 4.2; at most the 65507 bytes one UDP datagram carries).  The sources
\* have no such setting; it is only what the claims about framing compare with.
MaxPayload == 300

Zeros(n) == [i \in 1..n |-> 0]

RECURSIVE ByteStrings(_)
ByteStrings(n) ==
    IF n = 0 THEN { <<>> }
    ELSE LET shorter == ByteStrings(n - 1)
         IN  shorter \cup { Append(b, x) : b \in { y \in shorter : Len(y) = n - 1 },
                                            x \in {7, 255} }

\* payloads the framing is tried on: every short one, and long ones, whose length
\* needs two header bytes, at the ceiling and just over it
Payloads ==
    ByteStrings(MaxLen) \cup { Zeros(MaxPayload), Zeros(MaxPayload + 1) }

NoPacket == [size |-> 0, payload |-> <<>>]

FrIdle == [pc |-> "idle", payload |-> <<>>, data |-> <<>>, cut |-> 0, packet |-> NoPacket]

\* send_frame: header + frame, as handed to sendto
FramerEncode ==
    /\ fr.pc = "input"
    /\ fr' = [fr EXCEPT !.pc = "framed", !.data = datagram(fr.payload)]
    /\ UNCHANGED <<srv_vars, cl_vars>>

\* receive_frames: the buffer recvfrom returns, whole or short of its last bytes
FramerArrive ==
    /\ fr.pc = "framed"
    /\ \E k \in 0..MaxCut :
          /\ k <= Len(fr.data)
          /\ fr' = [fr EXCEPT !.pc = "arrived", !.cut = k,
                              !.data = SubSeq(fr.data, 1, Len(fr.data) - k)]
    /\ UNCHANGED <<srv_vars, cl_vars>>

\* receive_frames: FramePacket.parse(data) returns a packet
FramerParse ==
    /\ fr.pc = "arrived"
    /\ parse(fr.data).ok
    /\ fr' = [fr EXCEPT !.pc = "parsed", !.packet = parse(fr.data).val]
    /\ UNCHANGED <<srv_vars, cl_vars>>

\* receive_frames: FramePacket.parse(data) raises
FramerParseRaises ==
    /\ fr.pc = "arrived"
    /\ ~parse(fr.data).ok
    /\ fr' = [fr EXCEPT !.pc = "raised"]
    /\ UNCHANGED <<srv_vars, cl_vars>>

NoRegister == <<0, NotJson>>

SrvInit ==
    /\ srv_pc = "start"
    /\ transport = None
    /\ client_addr = None
    /\ conn = [c \in Conns |-> "idle"]
    /\ inbox = [c \in Conns |-> <<>>]
    /\ applied = <<>>
    /\ sent = <<>>
    /\ captures = 0
    /\ captured = <<>>
    /\ ticks = 0
    /\ last_register = NoRegister
    /\ nmsgs = 0

ClInit ==
    /\ cl_pc = "start"
    /\ cl_cmd = ""
    /\ cl_sent = <<>>
    /\ issued = <<>>
    /\ udp_in = <<>>
    /\ rx_pc = "none"
    /\ displayed = <<>>
    /\ delivered = {}
    /\ ndgrams = 0

Init == SrvInit /\ ClInit /\ fr = FrIdle

Next ==
    \/ Serve
    \/ Bind
    \/ \E c \in Conns : Connect(c)
    \/ \E c \in Conns : PeerSend(c)
    \/ \E c \in Conns : PeerClose(c)
    \/ \E c \in Conns : HandleMessage(c)
    \/ TickSkip(MaxTicks)
    \/ TickSend(MaxTicks)
    \/ TickCaptureFails(MaxTicks)
    \/ Sleep

Spec == Init /\ [][Next]_vars

\* one server and one SRVNCClient on connection ClientConn
NextClient ==
    \/ Serve
    \/ Bind
    \/ HandleMessage(ClientConn)
    \/ TickSkip(MaxClientTicks)
    \/ TickSend(MaxClientTicks)
    \/ TickCaptureFails(MaxClientTicks)
    \/ Sleep
    \/ ClientStart
    \/ ClientConnect
    \/ ClientConnectFails
    \/ ClientRegister
    \/ ClientInput
    \/ ClientSend
    \/ ClientSendFails
    \/ NetDeliver
    \/ StrayDatagram
    \/ ReceiveFrame
    \/ ReceiveFails

SpecClient == Init /\ [][NextClient]_vars

\* the receive task gets its turn whenever a datagram is waiting: recvfrom runs in
\* the executor, beside input(), and the event loop resumes the task when it
\* returns.  Nothing obliges the user to type a command.
SpecClientFair == SpecClient /\ WF_vars(ReceiveFrame \/ ReceiveFails)

\* one payload framed by the server's code and parsed by the client's
InitFramer ==
    /\ SrvInit
    /\ ClInit
    /\ fr \in { [FrIdle EXCEPT !.pc = "input", !.payload = p] : p \in Payloads }

NextFramer ==
    \/ FramerEncode
    \/ FramerArrive
    \/ FramerParse
    \/ FramerParseRaises

SpecFramer == InitFramer /\ [][NextFramer]_vars

(* ------------------------- reading a behaviour ------------------------- *)
Last(q) == q[Len(q)]

\* the step is one iteration of handle_control on connection c
HandledStep(c) == inbox[c] # <<>> /\ inbox'[c] = Tail(inbox[c])

\* the step is one sendto
SendStep == Len(sent') = Len(sent) + 1

\* the step is one call of send_frame
TickStep == ticks' = ticks + 1

\* the message is no JSON, or JSON without a type
Malformed(m) == ~m.json \/ m.type.t = "absent"

WireHost(m, c) ==
    IF m.payload.host.t = "str" /\ m.payload.host.s # "" THEN m.payload.host.s
    ELSE remote_host(c)

WirePort(m) ==
    IF m.payload.port.t = "int" THEN m.payload.port.n
    ELSE IF m.payload.port.t = "str" /\ m.payload.port.s \in DOMAIN DecimalStrings
         THEN DecimalStrings[m.payload.port.s]
         ELSE -1

\* the register message asks for an endpoint the server can install
ValidRegister(m) ==
    /\ m.json
    /\ m.type = JStr("register")
    /\ m.hasPayload
    /\ WirePort(m) >= 0

\* the endpoint a register message on connection c asks for
WireEndpoint(m, c) == <<WireHost(m, c), WirePort(m)>>

WirePayload(m) == IF m.hasPayload THEN m.payload ELSE EmptyPayload

(* ------------------------------- claims ------------------------------- *)
\* C1: every datagram is addressed to the endpoint of the register message handled
\* last, a handled register message installs exactly its own endpoint whatever was
\* installed before, and the server holds one endpoint or none.
C1_LastWriterWins ==
    [][ /\ SendStep => Last(sent').dest = WireEndpoint(last_register[2], last_register[1])
        /\ \A c \in Conns :
              HandledStep(c) /\ ValidRegister(Head(inbox[c]))
                  => client_addr' = WireEndpoint(Head(inbox[c]), c)
        /\ client_addr' = None \/ Len(client_addr') = 2 ]_vars

\* two datagrams went to two different endpoints: a registration was overwritten
\* between two sends, and the second send went to the new endpoint
C1_Witness ==
    /\ Len(sent) = 2
    /\ sent[1].dest # sent[2].dest
    /\ sent[2].dest = client_addr

\* C2: while no endpoint is registered, the send loop has captured nothing and sent
\* nothing, however many ticks ran, connections are open or commands were handled.
C2_NoEndpointSkip ==
    (client_addr = None \/ last_register = NoRegister) => (captures = 0 /\ sent = <<>>)

C2_Witness ==
    /\ client_addr = None
    /\ ticks >= 2
    /\ applied # <<>>
    /\ \A c \in Conns : conn[c] = "open"

\* C3: handling a command message calls apply_control exactly once, with the
\* message's type and payload, and leaves the endpoint as it was, before and after
\* a registration.
C3_CommandRelay ==
    [][ \A c \in Conns :
          HandledStep(c) /\ Head(inbox[c]).json /\ Head(inbox[c]).type = JStr("command")
              => /\ applied' = Append(applied,
                                      <<c, ControlMessage(JStr("command"),
                                                          WirePayload(Head(inbox[c])))>>)
                 /\ client_addr' = client_addr ]_vars

\* a command and a registration were both handled on one connection, and the
\* command was applied once
C3_Witness ==
    /\ Len(applied) = 1
    /\ client_addr # None
    /\ applied[1][1] = last_register[1]
    /\ applied[1][2].payload.raw = JStr("click:100,200")
    /\ \A c \in Conns : inbox[c] = <<>>

\* C5: handling a malformed message leaves the connection's handler running and
\* the endpoint unchanged.
C5_MalformedKeepsConnection ==
    [][ \A c \in Conns :
          HandledStep(c) /\ Malformed(Head(inbox[c]))
              => conn'[c] = "open" /\ client_addr' = client_addr ]_vars

\* C6: a message whose type is neither "register" nor "command" is not passed to
\* apply_control and does not change the endpoint.
C6_UnknownTypeRejected ==
    [][ \A c \in Conns :
          /\ HandledStep(c)
          /\ ~Malformed(Head(inbox[c]))
          /\ Head(inbox[c]).type \notin {JStr("register"), JStr("command")}
          => applied' = applied /\ client_addr' = client_addr ]_vars

\* C7: a tick whose capture fails sends nothing and the send loop goes on to its
\* interval wait and the next tick.
C7_CaptureFailureTickLocal ==
    [][ (captures' = captures + 1 /\ ~SendStep) => (sent' = sent /\ srv_pc' = "sleep") ]_vars

\* C8: a datagram goes to the value of the endpoint that the tick tested, which the
\* tick does not change, and every change of the endpoint installs host and port
\* of one single register message.
C8_EndpointAtomic ==
    [][ /\ SendStep => /\ client_addr # None
                       /\ Last(sent').dest = client_addr
                       /\ client_addr' = client_addr
        /\ client_addr' # client_addr
              => \E c \in Conns :
                    /\ HandledStep(c)
                    /\ ValidRegister(Head(inbox[c]))
                    /\ client_addr' = <<WireHost(Head(inbox[c]), c),
                                        WirePort(Head(inbox[c]))>> ]_vars

\* the endpoint was registered twice, with another host and another port, on two
\* connections, and a datagram went to each
C8_Witness ==
    /\ Len(sent) = 2
    /\ sent[1].dest[1] # sent[2].dest[1]
    /\ sent[1].dest[2] # sent[2].dest[2]
    /\ \A c \in Conns : conn[c] = "open"

\* C9: closing a connection leaves the endpoint as it was, an endpoint once set is
\* never absent again, and every tick that runs with an endpoint and a closed
\* connection captures, and sends to that endpoint when the capture succeeds.
C9_CloseKeepsEndpoint ==
    [][ /\ client_addr # None => client_addr' # None
        /\ \A c \in Conns :
              conn[c] = "open" /\ conn'[c] = "closed" => client_addr' = client_addr
        /\ (TickStep /\ client_addr # None /\ \E c \in Conns : conn[c] = "closed")
              => /\ captures' = captures + 1
                 /\ srv_pc' = "sleep" => SendStep /\ Last(sent').dest = client_addr ]_vars

\* the connection that registered the endpoint is closed, no other is open, and
\* the send loop is about to run a tick that does not skip
C9_Witness ==
    /\ \E c \in Conns :
          /\ conn[c] = "closed"
          /\ last_register[1] = c
          /\ \A d \in Conns \ {c} : conn[d] = "idle"
    /\ client_addr # None
    /\ srv_pc = "tick"
    /\ ticks = 1
    /\ sent = <<>>
    /\ ~send_skips(client_addr, transport)

\* the step is one iteration of receive_frames
ReceiveStep == udp_in # <<>> /\ udp_in' = Tail(udp_in)

\* C4: the receive loop is still running after every datagram it takes, well formed
\* or not.
C4_CorruptFrameResilience ==
    [][ ReceiveStep => rx_pc' = "recv" ]_vars

\* C10: the first message the client sends is the one register message, with its
\* listening port and a null host; every later message is the command message of
\* the command typed at that position; nothing is sent before the connection is
\* open.
C10_ClientControlSequence ==
    /\ cl_pc \in {"start", "connect", "register"} => cl_sent = <<>>
    /\ cl_sent # <<>> =>
          /\ cl_sent[1].type = JStr("register")
          /\ cl_sent[1].payload.host = Null
          /\ cl_sent[1].payload.port = JInt(listen_port)
    /\ \A i \in 2..Len(cl_sent) :
          /\ i - 1 <= Len(issued)
          /\ cl_sent[i].type = JStr("command")
          /\ cl_sent[i].payload.raw = JStr(issued[i - 1])
    /\ cl_pc = "input" => Len(cl_sent) = Len(issued) + 1

\* the client has sent its register message and two commands while the server has
\* handled none of them: no reply was awaited
C10_Witness ==
    /\ Len(cl_sent) = 3
    /\ inbox[ClientConn] = cl_sent
    /\ client_addr = None
    /\ applied = <<>>

\* C11: a payload of at most MaxPayload bytes, framed by send_frame and handed
\* whole to FramePacket.parse, comes back as a packet with that payload and with
\* its length as the declared size.
C11_FramerRoundTrip ==
    (fr.pc \in {"parsed", "raised"} /\ fr.cut = 0 /\ Len(fr.payload) <= MaxPayload)
        => /\ fr.pc = "parsed"
           /\ fr.packet.payload = fr.payload
           /\ fr.packet.size = Len(fr.payload)

\* a payload of 300 bytes, whose length needs two header bytes, went through whole
C11_Witness ==
    /\ fr.pc = "parsed"
    /\ fr.cut = 0
    /\ Len(fr.payload) = MaxPayload
    /\ fr.data[3] = 1
    /\ fr.data[4] = 44

\* C12: a buffer shorter than its header plus its declared length gives no packet,
\* so every packet obtained has its declared size equal to its payload's length.
C12_TruncationRejected ==
    fr.pc = "parsed"
        => /\ Len(fr.data) >= 4 + fr.packet.size
           /\ fr.packet.size = Len(fr.packet.payload)

\* C13: no datagram is built for a payload longer than MaxPayload, so every
\* datagram handed to sendto declares at most MaxPayload bytes.
C13_OversizedRefused ==
    fr.pc = "framed"
        => /\ Len(fr.payload) <= MaxPayload
           /\ unpack_be32(SubSeq(fr.data, 1, 4)) <= MaxPayload

\* C14, as claimed: a register message without a host, or with a null host,
\* installs the peer address of its connection, a register message with any host
\* installs that host, and the port installed is the message's port as an integer.
C14_HostDefaulting ==
    [][ \A c \in Conns :
          HandledStep(c) /\ ValidRegister(Head(inbox[c]))
              => LET m == Head(inbox[c])
                 IN  /\ m.payload.host.t \in {"absent", "null"}
                           => client_addr' = <<remote_host(c), WirePort(m)>>
                     /\ m.payload.host.t = "str"
                           => client_addr' = <<m.payload.host.s, WirePort(m)>> ]_vars

\* C14, amended: a register message without a host, with a null host or with an
\* empty host installs the peer address of its connection, a register message with
\* a non-empty host installs that host, and the port installed is the message's
\* port as an integer.
C14_HostDefaultingAmended ==
    [][ \A c \in Conns :
          HandledStep(c) /\ ValidRegister(Head(inbox[c]))
              => LET m == Head(inbox[c])
                     h == m.payload.host
                 IN  /\ (h.t \in {"absent", "null"} \/ h = JStr(""))
                           => client_addr' = <<remote_host(c), WirePort(m)>>
                     /\ (h.t = "str" /\ h.s # "")
                           => client_addr' = <<h.s, WirePort(m)>>
                     /\ client_addr'[2] \in Nat ]_vars

\* a register message with an empty host was handled and the peer address of its
\* connection is installed with the message's port
C14_Witness ==
    /\ last_register # NoRegister
    /\ last_register[2].payload.host = JStr("")
    /\ client_addr = <<remote_host(last_register[1]), 10001>>

\* C16: a tick that runs with an endpoint and the transport, and whose capture
\* returns a frame, calls capture_frame once and sendto once, and the datagram is
\* the 4-byte big-endian length of that frame followed by that frame and nothing
\* else.
C16_OneTickOneDatagram ==
    [][ (TickStep /\ client_addr # None /\ transport # None /\ srv_pc' = "sleep")
          => /\ captures' = captures + 1
             /\ Len(captured') = Len(captured) + 1
             /\ Len(sent') = Len(sent) + 1
             /\ SubSeq(sent', 1, Len(sent)) = sent
             /\ LET d == Last(sent').data
                    f == Last(captured')
                IN  /\ Len(d) = 4 + Len(f)
                    /\ d[1] * 16777216 + d[2] * 65536 + d[3] * 256 + d[4] = Len(f)
                    /\ SubSeq(d, 5, Len(d)) = f ]_vars

\* two ticks ran, each captured once and sent once, with two different frames
C16_Witness ==
    /\ ticks = 2
    /\ captures = 2
    /\ Len(sent) = 2
    /\ sent[1].data # sent[2].data

\* C17: a tick starts only when the send loop is between ticks and ends in the
\* interval wait (or ends the loop); every frame captured is sent in its own tick,
\* so the datagrams sent carry the frames captured, one each, in capture order, and
\* the datagrams already sent stay as they are.
C17_CaptureOrder ==
    [][ /\ TickStep => srv_pc = "tick" /\ srv_pc' \in {"sleep", "failed"}
        /\ Len(sent') = Len(captured')
        /\ \A i \in 1..Len(sent') :
              SubSeq(sent'[i].data, 5, Len(sent'[i].data)) = captured'[i]
        /\ sent' # sent => SubSeq(sent', 1, Len(sent)) = sent ]_vars

\* two different frames were captured and sent
C17_Witness ==
    /\ Len(captured) = 2
    /\ captured[1] # captured[2]
    /\ Len(sent) = 2
    /\ srv_pc = "sleep"

\* C19: sendto is called only with the transport bound and an endpoint set; a
\* register message handled before the transport exists installs its endpoint,
\* binding the transport keeps it, and a tick that runs with both and captures a
\* frame sends to it.
C19_SendNeedsTransportAndEndpoint ==
    [][ /\ SendStep => transport # None /\ client_addr # None
        /\ \A c \in Conns :
              (transport = None /\ HandledStep(c) /\ ValidRegister(Head(inbox[c])))
                  => client_addr' = WireEndpoint(Head(inbox[c]), c)
        /\ (transport = None /\ transport' # None) => client_addr' = client_addr
        /\ transport = None => sent' = <<>> /\ ticks' = 0
        /\ (TickStep /\ transport # None /\ client_addr # None /\ srv_pc' = "sleep")
              => SendStep /\ Last(sent').dest = client_addr ]_vars

\* an endpoint is registered while the control server runs and the transport
\* does not exist yet
C19_Witness ==
    /\ srv_pc = "serving"
    /\ transport = None
    /\ client_addr # None
    /\ sent = <<>>

\* the message is a register message the handler cannot take a port from
BadRegister(m) == m.json /\ m.type = JStr("register") /\ ~ValidRegister(m)

\* C20: handling a register message whose port is missing or is no integer leaves
\* the endpoint exactly as it was and the send loop where it was, and datagrams
\* keep going to that endpoint.
C20_BadRegisterKeepsEndpoint ==
    [][ /\ \A c \in Conns :
              HandledStep(c) /\ BadRegister(Head(inbox[c]))
                  => /\ client_addr' = client_addr
                     /\ srv_pc' = srv_pc
                     /\ sent' = sent
        /\ SendStep => Last(sent').dest = client_addr ]_vars

\* an endpoint is installed and the handler is about to take a register message
\* that names another host and a port that is no integer
C20_Witness ==
    /\ client_addr # None
    /\ ServerRunning
    /\ \E c \in Conns :
          /\ conn[c] = "open"
          /\ inbox[c] # <<>>
          /\ BadRegister(Head(inbox[c]))
          /\ Head(inbox[c]).payload.host.t = "str"
          /\ Head(inbox[c]).payload.host.s # client_addr[1]

\* C18: the payloads handed to apply_control are, position by position, the
\* commands the client issued, all of them on the client's connection; the handler
\* takes one message at a time from the head of the connection's queue and applies
\* at most one payload for it, after the ones already applied.
C18_CommandsInOrder ==
    [][ /\ Len(applied') <= Len(issued')
        /\ \A i \in 1..Len(applied') :
              /\ i <= Len(issued')
              /\ applied'[i][1] = ClientConn
              /\ applied'[i][2].type = JStr("command")
              /\ applied'[i][2].payload.raw = JStr(issued'[i])
        /\ applied' # applied
              => /\ HandledStep(ClientConn)
                 /\ Len(applied') = Len(applied) + 1
                 /\ SubSeq(applied', 1, Len(applied)) = applied ]_vars

\* the client issued two different commands and the server applied both
C18_Witness ==
    /\ Len(issued) = 2
    /\ issued[1] # issued[2]
    /\ Len(applied) = 2
    /\ inbox[ClientConn] = <<>>

\* C15: whenever the command loop waits for a line of input and a datagram is
\* waiting on the client's socket, the receive loop takes what is waiting, or the
\* command loop has moved on; no command has to be typed for that.
C15_InputDoesNotStallReceive ==
    (cl_pc = "input" /\ udp_in # <<>>) ~> (udp_in = <<>> \/ cl_pc # "input")

====
